---- MODULE Spec2Model ----
(***************************************************************************)
(* SmartChimera: beam-search team formation (smart_team_formation.py) and  *)
(* the linchpin detector (linchpin_detector.py) over a graph store.        *)
(*                                                                         *)
(* Numbers.  Python floats are modelled as exact fractions on fixed grids: *)
(*   - a weight w is held as the integer 2*w (halves: 1.5 is 3);           *)
(*   - a risk / centrality value r in [0,1] is held as r * RiskUnit;       *)
(*   - a raw score s is held as s * ScoreUnit;                             *)
(*   - a skill level is an integer 0..5, None is the empty sequence.       *)
(***************************************************************************)
EXTENDS Integers, Sequences, FiniteSets, TLC

VARIABLES
    candidates,      \* form_team argument: the pool, a sequence of candidate dicts
    skills_required, \* form_team argument: a sequence of skill names
    k,               \* form_team argument: the team size
    mode,            \* form_team argument: "resilient" | "performance"
    custom_weights,  \* form_team argument: <<>> (None) or <<dict>>
    has_detector,    \* SmartTeamFormation.detector is set
    detector_fails,  \* every call of detector.compute_betweenness_centrality raises
    store,           \* the graph store (Neo4j): nodes, edges, properties
    det_cache,       \* LinchpinDetector._bc_cache (a dict)
    tf_cache,        \* SmartTeamFormation._bc_cache (a dict)
    weights,         \* form_team local: the effective weights dict
    beam,            \* form_team local: the beam, a sequence of states
    round,           \* form_team local: completed iterations of `for _ in range(k)`
    pc,              \* "idle" | "loop" | "done" | "raised"
    result,          \* the returned team (a sequence of candidate dicts)
    raw_score,       \* best_raw_score of the returned team, <<>> when none
    display,         \* member['score'] of each returned member, in tenths
    bc_seen,         \* the (candidate id, bc) pairs read at line 176
    queries,         \* number of graph-store queries issued by the call
    det_calls,       \* number of calls of detector.compute_betweenness_centrality
    bf_in,           \* arguments of the latest calculate_team_bus_factor call
    bf_out,          \* its result (bf, critical_members), <<>> when none
    log,             \* the calls made on the detector and the store changes, in order
    MISSION_PROFILES, \* mission_profiles.MISSION_PROFILES, the module-level dict
    dossier,         \* the latest generate_dossiers call: its request and strategies
    pipeline         \* the run_pipeline call in progress: arguments, position, summary

vars == <<candidates, skills_required, k, mode, custom_weights, has_detector,
          detector_fails, store, det_cache, tf_cache, weights, beam, round, pc,
          result, raw_score, display, bc_seen, queries, det_calls, bf_in, bf_out,
          log, MISSION_PROFILES, dossier, pipeline>>

----------------------------------------------------------------------------
(* Units *)

RiskUnit == 6 * 60          \* 1.0 as a risk value
ScoreUnit == 2 * RiskUnit   \* 1.0 as a raw score

\* Python's None / a missing record is the empty sequence, a value v is <<v>>.
None == <<>>
Some(v) == <<v>>
IsNone(x) == x = <<>>
Val(x) == x[1]

\* dict.get(key, default) on a dict held as a function
Get(d, key, default) == IF key \in DOMAIN d THEN d[key] ELSE default

EmptyDict == [x \in {} |-> 0]

\* e, with x evaluated first: TLC evaluates definitions and arguments on demand;
\* this keeps a mapping from being recomputed at every lookup and a chain of
\* pending appends from being unwound in one deep recursion
Strict(x, e) == IF x = x THEN e ELSE e

Max(a, b) == IF a >= b THEN a ELSE b
Min(a, b) == IF a <= b THEN a ELSE b
Abs(a) == IF a < 0 THEN -a ELSE a

RECURSIVE SumOver(_, _)
\* sum of f[x] over the finite set S
SumOver(S, f) ==
    IF S = {} THEN 0
    ELSE LET x == CHOOSE y \in S : TRUE
         IN f[x] + SumOver(S \ {x}, f)

\* str.lower() on the skill names the model uses
Lower(s) ==
    CASE s = "Python" -> "python"
      [] s = "SQL" -> "sql"
      [] s = "Go" -> "go"
      [] OTHER -> s

\* {s.lower() for s in skills}
Required(skills) == {Lower(skills[i]) : i \in 1..Len(skills)}

----------------------------------------------------------------------------
(* The graph store *)

\* MATCH (e:Empleado {id:$id})-[r:TRABAJO_CON]-() : the neighbours of id
Neighbours(st, id) == {n \in st.nodes : {n, id} \in st.edges /\ n # id}

\* count of TRABAJO_CON relationships between cid and members of team_ids
CollabCount(st, cid, team_ids) ==
    IF cid \in st.nodes THEN Cardinality(Neighbours(st, cid) \cap team_ids) ELSE 0

\* Variant of BcSyn whose default is 0.1.
BcSynDefault(st, id) ==
    IF IsNone(st.bc_synthetic[id]) THEN RiskUnit \div 10 ELSE Val(st.bc_synthetic[id])

\* coalesce(e.bc_synthetic, 0)
BcSyn(st, id) == IF IsNone(st.bc_synthetic[id]) THEN 0 ELSE Val(st.bc_synthetic[id])

----------------------------------------------------------------------------
(* Betweenness centrality (networkx.betweenness_centrality, normalized) *)

RECURSIVE Walks(_, _, _, _)
\* number of walks of length len from s to t
Walks(st, s, t, len) ==
    IF len = 0 THEN (IF s = t THEN 1 ELSE 0)
    ELSE SumOver(Neighbours(st, s), [u \in Neighbours(st, s) |-> Walks(st, u, t, len - 1)])

\* lengths at which t is reached from s; the least is the distance
Reach(st, s, t) == {l \in 0..Cardinality(st.nodes) : Walks(st, s, t, l) > 0}
Connected(st, s, t) == Reach(st, s, t) # {}
Least(S) == CHOOSE l \in S : \A m \in S : l <= m
Dist(st, s, t) == Least(Reach(st, s, t))
\* sigma_st: number of shortest paths
Sigma(st, s, t) == Walks(st, s, t, Dist(st, s, t))

\* sigma_st(v): shortest s-t paths through v
SigmaThrough(st, s, t, v) ==
    IF Connected(st, s, v) /\ Connected(st, v, t)
       /\ Dist(st, s, v) + Dist(st, v, t) = Dist(st, s, t)
    THEN Sigma(st, s, v) * Sigma(st, v, t)
    ELSE 0

\* the pairs {s,t} of nodes other than v that are connected
PairsAround(st, v) ==
    {p \in SUBSET (st.nodes \ {v}) :
        /\ Cardinality(p) = 2
        /\ \E s \in p : \E t \in p : s # t /\ Connected(st, s, t)}

\* the contribution of the ordered pairs (s,t) and (t,s)
PairShareOf(st, s, t, v) ==
    (2 * RiskUnit * SigmaThrough(st, s, t, v)) \div Sigma(st, s, t)

PairShare(st, p, v) == PairShareOf(st, Least(p), Least(p \ {Least(p)}), v)

\* brandes_bc[v] in RiskUnit-ths: the sum over ordered pairs, scaled by
\* 1/((n-1)(n-2)) when n > 2 (exact for up to 6 nodes)
Scaled(total, n) == IF n > 2 THEN total \div ((n - 1) * (n - 2)) ELSE 0

Brandes(st, v) ==
    Scaled(SumOver(PairsAround(st, v),
                   [p \in PairsAround(st, v) |-> PairShare(st, p, v)]),
           Cardinality(st.nodes))

----------------------------------------------------------------------------
(* LinchpinDetector *)

\* The effects a call threads through: both caches, the store, the counters,
\* and whether an exception is propagating (raised); det_fails is the detector
\* whose centrality computation raises.
MkEnv(tfc, detc, st, q, calls, seen) ==
    [tf_cache |-> tfc, det_cache |-> detc, store |-> st,
     queries |-> q, det_calls |-> calls, bc_seen |-> seen,
     raised |-> FALSE, det_fails |-> FALSE]

\* n queries sent to the store: driver.session() / s.run(...) raise when the
\* store is unreachable, at the first of them
Asked(env, n) ==
    IF env.raised \/ n = 0 THEN env
    ELSE IF env.store.up THEN [env EXCEPT !.queries = @ + n]
    ELSE [env EXCEPT !.queries = @ + 1, !.raised = TRUE]

\* the entry of a detector method
Called(env) == [env EXCEPT !.det_calls = @ + 1, !.raised = env.det_fails]

\* Variant of CentralityOf that drops the override: the Brandes value alone.
CentralityBrandesOnly(st, id) == Brandes(st, id)

\* lines 72-79: cache[eid] = max(brandes_bc.get(eid, 0), coalesce(bc_synthetic, 0))
CentralityOf(st, id) == Max(Brandes(st, id), BcSyn(st, id))

\* Variant of CentralityMap built from the edge list alone: a node without
\* an edge gets no entry.
CentralityMapOfEdges(st) ==
    [id \in {n \in st.nodes : \E e \in st.edges : n \in e} |-> CentralityOf(st, id)]

CentralityMap(st) == [id \in st.nodes |-> CentralityOf(st, id)]

\* lines 82-84: SET e.bc_combined = bc for every cached id
WriteCombined(st, cache) ==
    [st EXCEPT !.bc_combined =
        [id \in st.nodes |-> IF id \in DOMAIN cache THEN Some(cache[id])
                             ELSE st.bc_combined[id]]]

\* lines 55-86: the graph is built, the cache filled and persisted
ComputeFresh(env, cache) ==
    IF env.store.up
    THEN [env |-> [Asked(env, 3 + Cardinality(env.store.nodes)) EXCEPT
                     !.det_cache = cache,
                     !.store = WriteCombined(env.store, cache)],
          ret |-> cache]
    ELSE [env |-> Asked(env, 1), ret |-> EmptyDict]

\* lines 51-86, past the entry
Computed(env) ==
    IF env.raised THEN [env |-> env, ret |-> EmptyDict]
    ELSE IF DOMAIN env.det_cache # {} THEN [env |-> env, ret |-> env.det_cache]
    ELSE IF env.store.up /\ env.store.nodes = {}
    THEN [env |-> Asked(env, 2), ret |-> EmptyDict]
    ELSE ComputeFresh(env, CentralityMap(env.store))

\* compute_betweenness_centrality: [env |-> effects, ret |-> the mapping returned]
compute_betweenness_centrality(env) == Computed(Called(env))

\* the ids that have github evidence, each with its count
WithEvidence(st) == {id \in st.nodes : st.evidence[id] > 0}

RECURSIVE MaxOver(_, _, _)
\* the greatest of floor and f[x] over the finite set S
MaxOver(S, f, floor) ==
    IF S = {} THEN floor
    ELSE MaxOver(S \ {Least(S)}, f, Max(floor, f[Least(S)]))

\* _compute_project_dependency_score: count / max(1, the largest count)
_compute_project_dependency_score(st) ==
    [id \in WithEvidence(st) |->
        (st.evidence[id] * RiskUnit) \div MaxOver(WithEvidence(st), st.evidence, 1)]

\* Variant of CombinedMap that leaves the project score out.
CombinedMapNetworkOnly(network_bc, project_scores) ==
    [eid \in DOMAIN network_bc \cup DOMAIN project_scores |->
        Get(network_bc, eid, 0)]

\* lines 125-134: 0.5 * network + 0.5 * project over the union of the ids
CombinedMap(network_bc, project_scores) ==
    [eid \in DOMAIN network_bc \cup DOMAIN project_scores |->
        (Get(network_bc, eid, 0) + Get(project_scores, eid, 0)) \div 2]

\* lines 136-138: SET e.linchpin_score = combined for the ids that are nodes
WriteLinchpin(st, final_scores) ==
    [st EXCEPT !.linchpin_score =
        [id \in st.nodes |-> IF id \in DOMAIN final_scores
                             THEN Some(final_scores[id]) ELSE @[id]]]

Finalised(env, final_scores) ==
    IF env.store.up
    THEN [env |-> [Asked(env, 1 + Cardinality(DOMAIN final_scores)) EXCEPT
                     !.store = WriteLinchpin(@, final_scores)],
          ret |-> final_scores]
    ELSE [env |-> Asked(env, 1), ret |-> EmptyDict]

CombinedFrom(r, project_scores) ==
    IF r.env.raised THEN [env |-> r.env, ret |-> EmptyDict]
    ELSE Finalised(r.env, CombinedMap(r.ret, project_scores))

\* compute_combined_risk_score: [env |-> effects, ret |-> the mapping returned]
compute_combined_risk_score(env) ==
    CombinedFrom(compute_betweenness_centrality(env),
                 _compute_project_dependency_score(env.store))

\* Variant of get_risk_level whose thresholds are inclusive.
get_risk_level_inclusive(bc) ==
    IF bc * 10 >= 7 * RiskUnit THEN "CRITICAL"
    ELSE IF bc * 2 >= RiskUnit THEN "HIGH"
    ELSE IF bc * 4 >= RiskUnit THEN "MEDIUM"
    ELSE "LOW"

\* lines 142-150: > 0.7, > 0.5, > 0.25
get_risk_level(bc) ==
    IF bc * 10 > 7 * RiskUnit THEN "CRITICAL"
    ELSE IF bc * 2 > RiskUnit THEN "HIGH"
    ELSE IF bc * 4 > RiskUnit THEN "MEDIUM"
    ELSE "LOW"

\* the skills of employee_id the report query collects
SkillsOf(st, employee_id) ==
    IF employee_id \in st.nodes THEN st.skills[employee_id] ELSE {}

\* lines 183-233: the report's bc_score and risk_level, after the name and
\* skills query, the unique-skills query (`if skills:`) and the project query
Reported(r, employee_id, bc) ==
    IF r.env.raised THEN [env |-> r.env, ret |-> None]
    ELSE [env |-> Asked(r.env, IF SkillsOf(r.env.store, employee_id) = {}
                               THEN 2 ELSE 3),
          ret |-> IF r.env.store.up
                  THEN Some([bc_score |-> bc, risk_level |-> get_risk_level(bc)])
                  ELSE None]

ReportFrom(r, employee_id) == Reported(r, employee_id, Get(r.ret, employee_id, 0))

\* lines 179-233
analyze_employee(env, employee_id) ==
    ReportFrom(compute_combined_risk_score(env), employee_id)

\* lines 253-263: the lower-cased skills of each team member
MemberSkills(st, tid) ==
    IF tid \in st.nodes THEN {Lower(sk) : sk \in st.skills[tid]} ELSE {}

\* lines 266-270: skill_coverage[sk], the members having the required skill sk
Covering(st, team_ids, sk) ==
    {team_ids[i] : i \in {j \in 1..Len(team_ids) : sk \in MemberSkills(st, team_ids[j])}}

\* the keys of skill_coverage: the required skills some member has
CoveredKeys(st, team_ids, required) ==
    {sk \in required : Covering(st, team_ids, sk) # {}}

\* lines 282-283 and 295: the skills of skill_coverage left without a member
\* once the members in gone are taken away
Uncovered(st, team_ids, required, gone) ==
    Cardinality({sk \in CoveredKeys(st, team_ids, required) :
                    Covering(st, team_ids, sk) \ gone = {}})

Damage(st, team_ids, required, removed, tid) ==
    Uncovered(st, team_ids, required, removed \cup {tid})

\* lines 278-286: the positions of the members whose damage is positive and
\* not exceeded by any other remaining member, nor equalled by an earlier one
WorstAt(st, team_ids, required, removed) ==
    {i \in 1..Len(team_ids) :
        /\ team_ids[i] \notin removed
        /\ Damage(st, team_ids, required, removed, team_ids[i]) > 0
        /\ \A j \in 1..Len(team_ids) :
              team_ids[j] \notin removed =>
                /\ Damage(st, team_ids, required, removed, team_ids[j])
                     <= Damage(st, team_ids, required, removed, team_ids[i])
                /\ (j < i => Damage(st, team_ids, required, removed, team_ids[j])
                              < Damage(st, team_ids, required, removed, team_ids[i]))}

\* lines 291-293: removed.add(worst); bf += 1; critical_members.append(worst)
Removal(acc, worst) ==
    [removed |-> acc.removed \cup {worst}, bf |-> acc.bf + 1,
     critical_members |-> Append(acc.critical_members, worst)]

RECURSIVE BusLoop(_, _, _, _, _)

\* lines 295-297: stop once more than half of the required skills are lost
BusAfter(st, team_ids, required, acc, left) ==
    IF 2 * Uncovered(st, team_ids, required, acc.removed) > Cardinality(required)
    THEN acc
    ELSE BusLoop(st, team_ids, required, acc, left - 1)

\* lines 277-297: the iterations of `for _ in range(len(team_ids))` left to run;
\* acc holds removed, bf and critical_members
BusLoop(st, team_ids, required, acc, left) ==
    IF left = 0 \/ WorstAt(st, team_ids, required, acc.removed) = {}
    THEN acc
    ELSE BusAfter(st, team_ids, required,
                  Removal(acc, team_ids[Least(WorstAt(st, team_ids, required, acc.removed))]),
                  left)

\* calculate_team_bus_factor: (bus_factor, critical_members)
calculate_team_bus_factor(st, team_ids, skills) ==
    BusLoop(st, team_ids, Required(skills),
            [removed |-> {}, bf |-> 0, critical_members |-> <<>>], Len(team_ids))

----------------------------------------------------------------------------
(* smart_team_formation.py: helpers *)

BEAM_WIDTH == 10

\* get_skills: the lower-cased names of the entries that have a skill
get_skills(c) ==
    {Lower(c.skills_detail[i].skill) :
        i \in {j \in 1..Len(c.skills_detail) : c.skills_detail[j].skill # ""}}

\* Variant of LevelTwice that counts a missing level as 0.
LevelTwiceNoneZero(nivel) == IF IsNone(nivel) THEN 0 ELSE 2 * Val(nivel)

\* float(nivel) if nivel is not None else 0.5, doubled
LevelTwice(nivel) == IF IsNone(nivel) THEN 1 ELSE 2 * Val(nivel)

\* the entries of skills_detail that get_depth averages
DepthEntries(c, required) ==
    {i \in 1..Len(c.skills_detail) : Lower(c.skills_detail[i].skill) \in required}

\* get_depth(c, required) * w (w doubled), in ScoreUnit-ths:
\* statistics.mean(levels) if levels else 0.0
get_depth(c, required, w) ==
    LET E == DepthEntries(c, required)
        total == SumOver(E, [i \in E |-> LevelTwice(c.skills_detail[i].nivel)])
    IN IF E = {} THEN 0
       ELSE (total * w * (ScoreUnit \div 4)) \div Cardinality(E)

\* coalesce(e.bc_combined, e.bc_synthetic, e.bc_brandes, 0)
CoalesceBc(st, id) ==
    IF ~IsNone(st.bc_combined[id]) THEN Val(st.bc_combined[id])
    ELSE IF ~IsNone(st.bc_synthetic[id]) THEN Val(st.bc_synthetic[id])
    ELSE IF ~IsNone(st.bc_brandes[id]) THEN Val(st.bc_brandes[id])
    ELSE 0

\* _get_bc: [env |-> effects, bc |-> the value returned]
\* lines 66-68: self._bc_cache = bc_scores; return bc_scores.get(id, 0.0)
FromDetector(r, candidate_id) ==
    IF r.env.raised THEN [env |-> r.env, bc |-> 0]
    ELSE [env |-> [r.env EXCEPT !.tf_cache = r.ret],
          bc |-> Get(r.ret, candidate_id, 0)]

\* lines 70-77: the value read from the store is cached under the id
FromStore(env, candidate_id, bc) ==
    IF env.store.up
    THEN [env |-> [Asked(env, 1) EXCEPT
                     !.tf_cache = [x \in DOMAIN @ \cup {candidate_id} |->
                                     IF x = candidate_id THEN bc ELSE @[x]]],
          bc |-> bc]
    ELSE [env |-> Asked(env, 1), bc |-> 0]

_get_bc(env, has_det, candidate_id) ==
    IF candidate_id \in DOMAIN env.tf_cache
    THEN [env |-> env, bc |-> env.tf_cache[candidate_id]]
    ELSE IF has_det
    THEN FromDetector(compute_betweenness_centrality(env), candidate_id)
    ELSE FromStore(env, candidate_id,
                   IF candidate_id \in env.store.nodes
                   THEN CoalesceBc(env.store, candidate_id) ELSE 0)

\* Variant of DefaultsCustom in which every missing key counts as 0.
DefaultsZero(cw) ==
    [skill_coverage |-> Get(cw, "skill_coverage", 0),
     skill_depth    |-> Get(cw, "skill_depth", 0),
     collaboration  |-> Get(cw, "collaboration", 0),
     redundancy     |-> Get(cw, "redundancy", 0),
     bc_penalty     |-> Get(cw, "bc_penalty", 0)]

\* lines 97-104: the weights built from a custom profile (doubled)
DefaultsCustom(cw) ==
    [skill_coverage |-> Get(cw, "skill_coverage", 6),
     skill_depth    |-> Get(cw, "skill_depth", 4),
     collaboration  |-> Get(cw, "collaboration", 4),
     redundancy     |-> Get(cw, "redundancy", 3),
     bc_penalty     |-> Get(cw, "bc_penalty", 0)]

WeightsResilient ==
    [skill_coverage |-> 6, skill_depth |-> 4, collaboration |-> 5,
     redundancy |-> 4, bc_penalty |-> 30]

WeightsPerformance ==
    [skill_coverage |-> 6, skill_depth |-> 6, collaboration |-> 4,
     redundancy |-> 3, bc_penalty |-> 0]

\* `if custom_weights:` is false for None and for the empty dict
Truthy(cw) == ~IsNone(cw) /\ DOMAIN Val(cw) # {}

EffectiveWeights(cw, m) ==
    IF Truthy(cw) THEN DefaultsCustom(Val(cw))
    ELSE IF m = "resilient" THEN WeightsResilient
    ELSE WeightsPerformance

----------------------------------------------------------------------------
(* form_team: one expansion, one round, the final selection *)

\* line 130: the single empty team
EmptyState == [team |-> <<>>, ids |-> {}, covered |-> {}, score |-> 0]

\* what a form_team call reads besides the effects it threads
MkCtx(cands, required, ws, has_det) ==
    [candidates |-> cands, required |-> required, weights |-> ws,
     has_detector |-> has_det]

\* lines 155-167: collaboration
CollabScore(ctx, env, st, c) ==
    IF Len(st.team) = 0
    THEN IF ctx.weights["collaboration"] > 10
         THEN [q |-> 1,
               score |-> Cardinality(Neighbours(env.store, c.id))
                         * ctx.weights["collaboration"] * (ScoreUnit \div 20)]
         ELSE [q |-> 0, score |-> 0]
    ELSE [q |-> 1,
          score |-> CollabCount(env.store, c.id, st.ids)
                    * ctx.weights["collaboration"] * (ScoreUnit \div 2)]

\* lines 173-181: BC penalty; reads _get_bc only when the weight is not 0
\* Variant of PenaltyFor without the flat 50.0 above 0.5.
PenaltyLinear(bc, w) == bc * 10 * w * (ScoreUnit \div (2 * RiskUnit))

\* lines 175-181: the penalty for centrality bc under weight w (doubled)
PenaltyFor(bc, w) ==
    IF w > 0 /\ 2 * bc > RiskUnit
    THEN 50 * ScoreUnit
    ELSE bc * 10 * w * (ScoreUnit \div (2 * RiskUnit))

PenaltyOf(r, id, w) ==
    IF r.env.raised THEN [env |-> r.env, penalty |-> 0]
    ELSE [env |-> [r.env EXCEPT !.bc_seen = @ \cup {<<id, r.bc>>}],
          penalty |-> PenaltyFor(r.bc, w)]

\* Variant of BcPenalty that looks the risk up whatever the weight.
BcPenaltyAlways(ctx, env, c) ==
    IF ~env.raised
    THEN PenaltyOf(_get_bc(env, ctx.has_detector, c.id), c.id,
                   ctx.weights["bc_penalty"])
    ELSE [env |-> env, penalty |-> 0]

BcPenalty(ctx, env, c) ==
    IF ctx.weights["bc_penalty"] # 0 /\ ~env.raised
    THEN PenaltyOf(_get_bc(env, ctx.has_detector, c.id), c.id,
                   ctx.weights["bc_penalty"])
    ELSE [env |-> env, penalty |-> 0]

\* the latest HAS_AVAILABILITY hours of id: r['h'] if r else 0
LatestHours(st, id) ==
    IF id \in st.nodes /\ ~IsNone(st.hours[id]) THEN Val(st.hours[id]) ELSE 0

\* lines 183-189: availability, read from the effective weights dict
HoursScore(ctx, env, c) ==
    IF Get(ctx.weights, "availability", 0) > 0
    THEN [q |-> 1,
          score |-> LatestHours(env.store, c.id) * ctx.weights["availability"]
                    * (ScoreUnit \div 80)]
    ELSE [q |-> 0, score |-> 0]

\* lines 144-202: the state reached by adding candidate c to state st
\* lines 148-150: coverage of the required skills not yet covered
CoverageScore(ctx, st, c) ==
    Cardinality(get_skills(c) \cap (ctx.required \ st.covered))
    * ctx.weights["skill_coverage"] * (ScoreUnit \div 2)

\* lines 169-171: overlap with the skills already covered
RedundancyScore(ctx, st, c) ==
    Cardinality(get_skills(c) \cap st.covered)
    * ctx.weights["redundancy"] * (ScoreUnit \div 2)

\* lines 191-202: raw_gain and the new state
NewState(ctx, st, c, collab, bc, hours) ==
    [env |-> Asked(bc.env, hours.q),
     state |-> [team |-> Append(st.team, c),
                ids |-> st.ids \cup {c.id},
                covered |-> st.covered \cup (get_skills(c) \cap ctx.required),
                score |-> st.score + CoverageScore(ctx, st, c)
                          + get_depth(c, ctx.required, ctx.weights["skill_depth"])
                          + collab.score + RedundancyScore(ctx, st, c)
                          + hours.score - bc.penalty]]

\* lines 144-202: the state reached by adding candidate c to state st
\* the collaboration query runs before the centrality lookup, the
\* availability query after it
ExpandWith(ctx, env, st, c, collab) ==
    NewState(ctx, st, c, collab, BcPenalty(ctx, Asked(env, collab.q), c),
             HoursScore(ctx, env, c))

Expand(ctx, env, st, c) ==
    ExpandWith(ctx, env, st, c, CollabScore(ctx, env, st, c))

\* Variant of Pooled that drops the append.
PooledDropped(acc, r) == [env |-> r.env, pool |-> acc.pool]

\* line 202: candidates_pool.append(new_state)
Pooled(acc, r) ==
    [env |-> r.env,
     pool |-> IF r.env.raised THEN acc.pool ELSE Append(acc.pool, r.state)]

\* Variant of Taken in which the membership test never succeeds.
TakenNever(st, c) == FALSE

\* line 141: c['id'] in curr_ids
Taken(st, c) == c.id \in st.ids

RECURSIVE ExpandState(_, _, _, _)
\* lines 140-202: every candidate from position j on, tried on state st;
\* acc holds the effects so far and candidates_pool
ExpandState(ctx, acc, st, j) ==
    Strict(acc,
           IF j > Len(ctx.candidates) \/ acc.env.raised THEN acc
           ELSE IF Taken(st, ctx.candidates[j])
           THEN ExpandState(ctx, acc, st, j + 1)
           ELSE ExpandState(ctx, Pooled(acc, Expand(ctx, acc.env, st, ctx.candidates[j])),
                            st, j + 1))

RECURSIVE ExpandAll(_, _, _, _)
\* lines 137-202: every (state, candidate) pair in enumeration order
ExpandAll(ctx, acc, bm, i) ==
    Strict(acc,
           IF i > Len(bm) \/ acc.env.raised THEN acc
           ELSE ExpandAll(ctx, ExpandState(ctx, acc, bm[i], 1), bm, i + 1))

\* Variant of RankDesc that places the later of two equal scores first.
RankDescLaterFirst(pool, i) ==
    1 + Cardinality({j \in 1..Len(pool) :
                        \/ pool[j].score > pool[i].score
                        \/ pool[j].score = pool[i].score /\ j > i})

\* the place of pool[i] after the stable descending sort: behind every element
\* with a greater score and every earlier element with the same score
RankDesc(pool, i) ==
    1 + Cardinality({j \in 1..Len(pool) :
                        \/ pool[j].score > pool[i].score
                        \/ pool[j].score = pool[i].score /\ j < i})

\* line 206: list.sort(key=score, reverse=True), which is stable
Placed(pool, rank) ==
    Strict(rank,
           [r \in 1..Len(pool) |-> pool[CHOOSE i \in 1..Len(pool) : rank[i] = r]])

\* Variant of SortDesc that leaves the pool in generation order.
SortNothing(pool) == pool

SortDesc(pool) == Placed(pool, [i \in 1..Len(pool) |-> RankDesc(pool, i)])

\* Variant of Prune that keeps the whole sorted pool.
PruneNothing(sorted) == sorted

\* line 207: candidates_pool[:BEAM_WIDTH]
Prune(sorted) == SubSeq(sorted, 1, Min(BEAM_WIDTH, Len(sorted)))

\* lines 134-207: one iteration of `for _ in range(k)`
Pruned(r) ==
    [env |-> r.env, pool |-> r.pool,
     beam |-> IF r.env.raised THEN <<>> ELSE Prune(SortDesc(r.pool))]

RoundStep(ctx, env, bm) ==
    Pruned(ExpandAll(ctx, [env |-> env, pool |-> <<>>], bm, 1))

\* round(x, 1) of the fraction num/den (den > 0, num >= 0), in tenths:
\* round-half-even of 10*num/den
RoundTenths(num, den) ==
    LET q == (10 * num) \div den
        r == 10 * num - q * den
    IN IF 2 * r < den THEN q
       ELSE IF 2 * r > den THEN q + 1
       ELSE IF q % 2 = 0 THEN q ELSE q + 1

\* lines 221-239: max_possible_per_person, doubled (the weights are doubled)
MaxPerPersonRaw(ws) ==
    Get(ws, "skill_coverage", 2) + Get(ws, "skill_depth", 2) * 5
    + Get(ws, "collaboration", 2) * 5 + Get(ws, "redundancy", 2)
    + Get(ws, "availability", 0)
    + (IF Get(ws, "bc_penalty", 0) < 0 THEN Abs(ws["bc_penalty"]) ELSE 0)

\* line 239: `if max_possible_per_person == 0: max_possible_per_person = 1.0`
MaxPerPerson(ws) == IF MaxPerPersonRaw(ws) = 0 THEN 2 ELSE MaxPerPersonRaw(ws)

\* line 242: max_total_team_score, in halves of ScoreUnit-ths
MaxTotal(ws, kk) == MaxPerPerson(ws) * kk

\* Variant of Normalized without max(0.0, min(10.0, ...)).
NormalizedUnclamped(raw, den) ==
    LET num == IF den < 0 THEN -(2 * raw) ELSE 2 * raw
        d == Abs(den) * ScoreUnit
    IN IF num < 0 THEN -RoundTenths(10 * (-num), d)
       ELSE RoundTenths(10 * num, d)

\* lines 244-248: the display score in tenths; the caller has den # 0.
\* raw is in ScoreUnit-ths, den in halves: raw/den = 2*raw / (ScoreUnit*den)
Normalized(raw, den) ==
    LET num == IF den < 0 THEN -(2 * raw) ELSE 2 * raw
        d == Abs(den) * ScoreUnit
    IN IF num <= 0 THEN 0
       ELSE IF num >= d THEN 100
       ELSE RoundTenths(10 * num, d)

\* lines 247-248: every member of the team gets the one rounded score
MemberScores(team, score) == [i \in 1..Len(team) |-> score]

\* Variant of FinalSelection without `if not beam: return []`: beam[0] raises.
FinalSelectionUnguarded(bm, ws, kk) ==
    IF Len(bm) = 0
    THEN [pc |-> "raised", result |-> <<>>, raw_score |-> None, display |-> None]
    ELSE IF MaxTotal(ws, kk) = 0
    THEN [pc |-> "raised", result |-> <<>>, raw_score |-> Some(bm[1].score),
          display |-> None]
    ELSE [pc |-> "done", result |-> bm[1].team, raw_score |-> Some(bm[1].score),
          display |-> MemberScores(bm[1].team,
                                   Normalized(bm[1].score, MaxTotal(ws, kk)))]

\* lines 209-250: what form_team returns from the final beam
FinalSelection(bm, ws, kk) ==
    IF Len(bm) = 0
    THEN [pc |-> "done", result |-> <<>>, raw_score |-> None, display |-> None]
    ELSE IF MaxTotal(ws, kk) = 0
    THEN [pc |-> "raised", result |-> <<>>, raw_score |-> Some(bm[1].score),
          display |-> None]
    ELSE [pc |-> "done", result |-> bm[1].team, raw_score |-> Some(bm[1].score),
          display |-> MemberScores(bm[1].team,
                                   Normalized(bm[1].score, MaxTotal(ws, kk)))]

\* what form_team leaves when an exception propagates out of it
Raised == [pc |-> "raised", result |-> <<>>, raw_score |-> None, display |-> None]

RECURSIVE Rounds(_, _, _, _)

AfterRound(ctx, r, left) == Rounds(ctx, r.env, r.beam, left - 1)

\* lines 133-207: the effects and the beam after the iterations of
\* `for _ in range(k)` left to run
Rounds(ctx, env, bm, left) ==
    IF left = 0 \/ env.raised THEN [env |-> env, beam |-> bm]
    ELSE AfterRound(ctx, RoundStep(ctx, env, bm), left)

Outcome(r, ws, kk) ==
    IF r.env.raised THEN Raised ELSE FinalSelection(r.beam, ws, kk)

\* form_team as a function of its arguments and of the effects env it starts
\* from: the outcome record of FinalSelection
form_team(cands, skills, kk, m, cw, has_det, env) ==
    Outcome(Rounds(MkCtx(cands, Required(skills), EffectiveWeights(cw, m), has_det),
                   env, <<EmptyState>>, kk),
            EffectiveWeights(cw, m), kk)

----------------------------------------------------------------------------
(* Actions of form_team *)

Env ==
    [MkEnv(tf_cache, det_cache, store, queries, det_calls, bc_seen)
        EXCEPT !.det_fails = detector_fails]

Ctx == MkCtx(candidates, Required(skills_required), weights, has_detector)

\* lines 96-130: entry, up to the first iteration
FormTeamCall ==
    /\ pc = "idle"
    /\ weights' = EffectiveWeights(custom_weights, mode)
    /\ beam' = <<EmptyState>>
    /\ round' = 0
    /\ pc' = "loop"
    /\ UNCHANGED <<candidates, skills_required, k, mode, custom_weights,
                   has_detector, detector_fails, log, MISSION_PROFILES, dossier, pipeline, store, det_cache, tf_cache, result, raw_score,
                   display, bc_seen, queries, det_calls, bf_in, bf_out>>

\* lines 133-207: one iteration of the loop
Round ==
    /\ pc = "loop"
    /\ round < k
    /\ \E r \in {RoundStep(Ctx, Env, beam)} :
          /\ beam' = r.beam
          /\ tf_cache' = r.env.tf_cache
          /\ det_cache' = r.env.det_cache
          /\ store' = r.env.store
          /\ queries' = r.env.queries
          /\ det_calls' = r.env.det_calls
          /\ bc_seen' = r.env.bc_seen
          /\ pc' = IF r.env.raised THEN "raised" ELSE pc
    /\ round' = round + 1
    /\ UNCHANGED <<candidates, skills_required, k, mode, custom_weights,
                   has_detector, detector_fails, log, MISSION_PROFILES, dossier, pipeline, weights, result, raw_score,
                   display, bf_in, bf_out>>

\* lines 209-250: final selection and score normalization
Finish ==
    /\ pc = "loop"
    /\ round >= k
    /\ \E f \in {FinalSelection(beam, weights, k)} :
          /\ pc' = f.pc
          /\ result' = f.result
          /\ raw_score' = f.raw_score
          /\ display' = f.display
    /\ UNCHANGED <<candidates, skills_required, k, mode, custom_weights,
                   has_detector, detector_fails, log, MISSION_PROFILES, dossier, pipeline, store, det_cache, tf_cache, weights, beam,
                   round, bc_seen, queries, det_calls, bf_in, bf_out>>

----------------------------------------------------------------------------
(* Inputs: the calls and store contents the model explores *)

MaxPool == 3     \* longest pool of the general family
MaxK == 3        \* largest team size asked for
MaxWide == 12    \* longest pool of the wide family (wider than the beam)

Cand(id, detail) == [id |-> id, skills_detail |-> detail]
Sk(name, nivel) == [skill |-> name, nivel |-> nivel]

\* a risk value given in tenths
Tenths(n) == n * (RiskUnit \div 10)

Employees == {1, 2, 3}

NoneOn(S) == [id \in S |-> None]

MkStore(nodes, edges, syn, evidence, hours, skills) ==
    [nodes |-> nodes, edges |-> edges, bc_synthetic |-> syn,
     bc_combined |-> NoneOn(nodes), bc_brandes |-> NoneOn(nodes),
     linchpin_score |-> NoneOn(nodes), up |-> TRUE,
     evidence |-> evidence, hours |-> hours, skills |-> skills]

EmptyStore == MkStore({}, {}, NoneOn({}), NoneOn({}), NoneOn({}), NoneOn({}))

MkInput(cands, skills, kk, m, cw, has_det, st) ==
    [candidates |-> cands, skills_required |-> skills, k |-> kk, mode |-> m,
     custom_weights |-> cw, has_detector |-> has_det, store |-> st,
     detector_fails |-> FALSE]

Modes == {"resilient", "performance"}

SeqsUpTo(S, n) == UNION {[1..m -> S] : m \in 0..n}

\* a dict from optional entries: the keys whose option is set
FactorNames == {"skill_coverage", "skill_depth", "collaboration", "redundancy",
                "availability", "bc_penalty"}

DictOf(opts) == [f \in {g \in DOMAIN opts : ~IsNone(opts[g])} |-> Val(opts[f])]

Opt(S) == {None} \cup {Some(v) : v \in S}

(* General family: pools with repeated ids, ids unknown to the store, any k *)
DetailPy == <<Sk("Python", Some(5))>>
DetailSql == <<Sk("SQL", Some(3))>>
DetailMix == <<Sk("python", None), Sk("SQL", Some(2))>>

CatalogueG == {Cand(1, DetailPy), Cand(2, DetailSql), Cand(1, DetailMix), Cand(4, <<>>)}

StoreG ==
    MkStore(Employees, {{1, 2}, {2, 3}},
            [id \in Employees |-> IF id = 1 THEN Some(Tenths(2)) ELSE None],
            [id \in Employees |-> IF id = 1 THEN 2 ELSE 0],
            [id \in Employees |-> IF id = 3 THEN None ELSE Some(20 * id)],
            [id \in Employees |-> {}])

InputsG ==
    {MkInput(p, sk, kk, m, None, TRUE, StoreG) :
        p \in SeqsUpTo(CatalogueG, MaxPool),
        sk \in {<<>>, <<"Python", "SQL">>},
        kk \in 0..MaxK,
        m \in Modes}

(* Risk family: two candidates alike in everything but their risk *)
RiskVals == {Tenths(n) : n \in {0, 1, 4, 5, 6, 9}}

StoreR(r1, r2, edges, ev1, ev2) ==
    MkStore(Employees, edges,
            [id \in Employees |-> IF id = 1 THEN r1 ELSE IF id = 2 THEN r2 ELSE None],
            [id \in Employees |-> IF id = 1 THEN ev1 ELSE IF id = 2 THEN ev2 ELSE 0],
            [id \in Employees |-> Some(40)],
            [id \in Employees |-> {}])

PoolsTwo == {<<Cand(1, DetailPy), Cand(2, DetailPy)>>,
             <<Cand(2, DetailPy), Cand(1, DetailPy)>>}

WeightsR == {None} \cup {Some([bc_penalty |-> w]) : w \in {1, 10, 30, 40}}

InputsR ==
    {MkInput(p, <<"Python">>, 1, "resilient", cw, det,
             StoreR(r1, r2, g.edges, g.ev[1], g.ev[2])) :
        p \in PoolsTwo, cw \in WeightsR, det \in BOOLEAN,
        r1 \in Opt(RiskVals), r2 \in Opt(RiskVals),
        g \in {[edges |-> {}, ev |-> <<0, 0>>],
               [edges |-> {{1, 3}, {2, 3}}, ev |-> <<2, 1>>]}}

(* Weights family: custom profiles with any subset of the factors *)
CustomDicts ==
    {DictOf([skill_coverage |-> cov, skill_depth |-> dep, collaboration |-> col,
             redundancy |-> red, availability |-> av, bc_penalty |-> bc]) :
        cov \in Opt({0, 2}), dep \in Opt({0, 2}), col \in Opt({0, 12}),
        red \in Opt({0, 2}), av \in Opt({0, 2}), bc \in Opt({0, 4, -4})}

StoreW ==
    MkStore(Employees, {{1, 2}},
            [id \in Employees |-> IF id = 2 THEN Some(Tenths(4)) ELSE None],
            [id \in Employees |-> 0],
            [id \in Employees |-> Some(10 * id)],
            [id \in Employees |-> {}])

PoolsW == {<<>>, <<Cand(1, DetailPy), Cand(2, DetailSql), Cand(3, DetailMix),
                   Cand(1, DetailMix)>>}

InputsW ==
    {MkInput(p, <<"Python", "sql">>, kk, m, cw, TRUE, StoreW) :
        p \in PoolsW, kk \in 0..2, m \in {"performance"},
        cw \in {None} \cup {Some(d) : d \in CustomDicts}}

(* Availability family: two candidates alike in everything but their hours *)
StoreA(h1, h2) ==
    MkStore(Employees, {},
            NoneOn(Employees),
            [id \in Employees |-> 0],
            [id \in Employees |-> IF id = 1 THEN h1 ELSE IF id = 2 THEN h2 ELSE None],
            [id \in Employees |-> {}])

WeightsA ==
    {Some([f \in FactorNames |-> IF f = "availability" THEN w ELSE 0]) : w \in {2, 8}}
    \cup {Some([availability |-> 2])}

InputsA ==
    {MkInput(p, <<"Python">>, 1, m, cw, TRUE, StoreA(h1, h2)) :
        p \in PoolsTwo, m \in Modes, cw \in WeightsA,
        h1 \in Opt({10, 20, 40}), h2 \in Opt({10, 20, 40})}

(* Wide family: more distinct candidates than the beam is wide *)
WidePool(n) == [i \in 1..n |-> Cand(i, IF i % 3 = 0 THEN DetailSql ELSE DetailPy)]

InputsWide ==
    {MkInput(WidePool(n), sk, kk, "performance", None, FALSE, EmptyStore) :
        n \in (BEAM_WIDTH + 1)..MaxWide, sk \in {<<"Python">>, <<"Python", "SQL">>},
        kk \in 1..MaxK}

(* Failure family: an unreachable store, a store without nodes, a detector
   whose centrality computation raises *)
PoolF == <<Cand(1, DetailPy), Cand(2, DetailPy)>>

StoreF == StoreR(Some(Tenths(3)), None, {{1, 3}, {2, 3}}, 2, 1)

WeightsF ==
    {None, Some([bc_penalty |-> 4]), Some([bc_penalty |-> -4]),
     Some([skill_coverage |-> 2]), Some([collaboration |-> 12]),
     Some([availability |-> 2]), Some([skill_coverage |-> -2]),
     Some([skill_coverage |-> -2, skill_depth |-> -2, collaboration |-> -2,
           redundancy |-> -2]),
     Some([skill_coverage |-> 40, skill_depth |-> 0, collaboration |-> 0,
           redundancy |-> 0, bc_penalty |-> -4])}

InputsF ==
    {[MkInput(PoolF, <<"Python">>, kk, m, cw, det, st) EXCEPT
        !.detector_fails = df, !.store.up = up] :
        kk \in 0..2, m \in Modes, cw \in WeightsF, det \in BOOLEAN,
        df \in BOOLEAN, up \in BOOLEAN, st \in {StoreF, EmptyStore}}

(* Depth family: two candidates with the same skills at levels of their own *)
DetailD(nivel) == <<Sk("Python", nivel), Sk("SQL", Some(3))>>

WeightsD ==
    {None, Some([skill_depth |-> 12]), Some([skill_depth |-> 12, bc_penalty |-> 2])}

InputsD ==
    {MkInput(<<Cand(ids[1], DetailD(la)), Cand(ids[2], DetailD(lb))>>, sk, 1, m, cw,
             det, StoreR(r1, r2, {}, 0, 0)) :
        ids \in {<<1, 2>>, <<2, 1>>}, la \in Opt({0, 1, 4, 5}), lb \in Opt({0, 1, 4, 5}),
        sk \in {<<"Python">>, <<"Python", "SQL">>}, m \in Modes, cw \in WeightsD,
        det \in BOOLEAN, r1 \in {None, Some(Tenths(6))}, r2 \in {None, Some(Tenths(6))}}

InputFamilies ==
    <<InputsG, InputsR, InputsW, InputsA, InputsWide, InputsF, InputsD>>

-----------------------------------------------------------------------------
(* mission_profiles.py and guardian_core.generate_dossiers *)

\* a weights dict of a mission profile (every value doubled)
ProfileWeights(sc, sd, co, re, av, bc) ==
    [skill_coverage |-> sc, skill_depth |-> sd, collaboration |-> co,
     redundancy |-> re, availability |-> av, bc_penalty |-> bc]

ProfileIds ==
    {"mantenimiento", "innovacion", "entrega_rapida", "legacy_rescue",
     "junior_training", "crisis_response", "architecture_review",
     "security_audit", "cloud_migration"}

\* mission_profiles.py lines 10-128: the dict as the module defines it
ConfiguredProfiles ==
    [p \in ProfileIds |->
        CASE p = "mantenimiento" ->
               [strategy_preference |-> "resilient",
                weights |-> ProfileWeights(4, 2, 4, 10, 6, 40)]
          [] p = "innovacion" ->
               [strategy_preference |-> "performance",
                weights |-> ProfileWeights(2, 20, 1, 0, 2, -10)]
          [] p = "entrega_rapida" ->
               [strategy_preference |-> "speed",
                weights |-> ProfileWeights(4, 2, 20, 2, 8, 0)]
          [] p = "legacy_rescue" ->
               [strategy_preference |-> "resilient",
                weights |-> ProfileWeights(20, 4, 4, 6, 10, 20)]
          [] p = "junior_training" ->
               [strategy_preference |-> "resilient",
                weights |-> ProfileWeights(4, 1, 10, 10, 10, 100)]
          [] p = "crisis_response" ->
               [strategy_preference |-> "speed",
                weights |-> ProfileWeights(10, 4, 4, 2, 40, 0)]
          [] p = "architecture_review" ->
               [strategy_preference |-> "performance",
                weights |-> ProfileWeights(6, 20, 2, 0, 1, -20)]
          [] p = "security_audit" ->
               [strategy_preference |-> "resilient",
                weights |-> ProfileWeights(10, 10, 0, 20, 4, 10)]
          [] OTHER ->
               [strategy_preference |-> "performance",
                weights |-> ProfileWeights(30, 4, 6, 4, 4, 10)]]

\* mission_profiles.py lines 130-132: the dict stored under the id, or the one
\* under "innovacion"; the call returns the stored object itself, which the
\* model names by its key
get_mission_profile(profile_id) ==
    IF profile_id \in ProfileIds THEN profile_id ELSE "innovacion"

\* guardian_core.py lines 418-437: the two baseline dicts, built on every call
weights_resilient == ProfileWeights(4, 2, 4, 6, 4, 40)
weights_performance == ProfileWeights(2, 6, 2, 2, 2, 0)

\* guardian_core.py lines 439-461; the third strategy holds the weights dict
\* of the profile named by ref, not a copy of it
strategies_config(profiles, ref) ==
    << [id |-> "safe_bet", mode |-> "resilient",
        custom_weights |-> weights_resilient],
       [id |-> "growth", mode |-> "performance",
        custom_weights |-> weights_performance],
       [id |-> "mission_aligned",
        mode |-> IF profiles[ref].strategy_preference = "resilient"
                 THEN "resilient" ELSE "performance",
        custom_weights |-> profiles[ref].weights] >>

\* guardian_core.py lines 465-467, on one strategy
ForcedResilient(strat) ==
    [strat EXCEPT !.mode = "resilient", !.custom_weights.bc_penalty = 40]

\* guardian_core.py line 467 on the third strategy: the assignment goes through
\* strat['custom_weights'] into the dict of the profile
WrittenThrough(profiles, ref) ==
    [profiles EXCEPT ![ref].weights.bc_penalty = 40]

\* request.get('mission_profile', 'mantenimiento') and
\* request.get('formation_mode', 'performance'), guardian_core.py lines 377-378
RequestedProfile(request) ==
    IF IsNone(request.mission_profile) THEN "mantenimiento"
    ELSE Val(request.mission_profile)

RequestedMode(request) ==
    IF IsNone(request.formation_mode) THEN "performance"
    ELSE Val(request.formation_mode)

\* guardian_core.py lines 352-527: the profiles after the call and the
\* strategies handed to form_team; an empty candidate list returns early
generate_dossiers(profiles, request) ==
    IF ~request.has_candidates
    THEN [profiles |-> profiles, strategies |-> <<>>]
    ELSE LET ref == get_mission_profile(RequestedProfile(request))
         IN  IF RequestedMode(request) = "resilient"
             THEN [profiles |-> WrittenThrough(profiles, ref),
                   strategies |->
                       [i \in 1..3 |->
                           ForcedResilient(strategies_config(profiles, ref)[i])]]
             ELSE [profiles |-> profiles,
                   strategies |-> strategies_config(profiles, ref)]

-----------------------------------------------------------------------------
(* ingestors/pipeline.py: run_pipeline *)

PipelineIdle ==
    [pc |-> "idle", sources |-> <<>>, max_commits |-> None,
     skip_normalization |-> FALSE, skip_recompute |-> FALSE,
     calls |-> <<>>, summary |-> EmptyDict]

\* lines 35-42: the call binds its arguments and starts with an empty summary
Entered(sources, max_commits, skip_normalization, skip_recompute) ==
    [pc |-> "ingest", sources |-> sources, max_commits |-> max_commits,
     skip_normalization |-> skip_normalization,
     skip_recompute |-> skip_recompute,
     calls |-> <<>>, summary |-> EmptyDict]

\* a step that was called and returned: the call is recorded with its
\* arguments and its result is stored in the summary under key
StepDone(p, step, args, key, next) ==
    [p EXCEPT !.calls = Append(@, [step |-> step, args |-> args]),
              !.summary = (key :> [of |-> step, args |-> args]) @@ @,
              !.pc = next]

\* a step that was called and raised: run_pipeline catches nothing
StepRaised(p, step, args) ==
    [p EXCEPT !.calls = Append(@, [step |-> step, args |-> args]),
              !.pc = "raised"]

\* lines 44-45
Ingested(p) ==
    StepDone(p, "run_sources", <<p.sources, p.max_commits>>, "ingest",
             "normalize")

\* Variant of NormalizedStep that runs the normalization whatever the flag.
NormalizedStepAlways(p) ==
    StepDone(p, "_normalize_evidence_uids", <<>>, "normalize", "recompute")

\* lines 48-53
NormalizedStep(p) ==
    IF ~p.skip_normalization
    THEN StepDone(p, "_normalize_evidence_uids", <<>>, "normalize", "recompute")
    ELSE [p EXCEPT !.pc = "recompute"]

\* lines 55-60
RecomputedStep(p) ==
    IF ~p.skip_recompute
    THEN StepDone(p, "recompute_all_skill_levels", <<>>, "recompute", "return")
    ELSE [p EXCEPT !.pc = "return"]

----------------------------------------------------------------------------
(* Specification of one form_team call on a fresh SmartTeamFormation *)

Init ==
    /\ \E fam \in DOMAIN InputFamilies : \E inp \in InputFamilies[fam] :
        /\ candidates = inp.candidates
        /\ skills_required = inp.skills_required
        /\ k = inp.k
        /\ mode = inp.mode
        /\ custom_weights = inp.custom_weights
        /\ has_detector = inp.has_detector
        /\ store = inp.store
        /\ detector_fails = inp.detector_fails
    /\ det_cache = EmptyDict
    /\ tf_cache = EmptyDict
    /\ weights = EmptyDict
    /\ beam = <<>>
    /\ round = 0
    /\ pc = "idle"
    /\ result = <<>>
    /\ raw_score = None
    /\ display = None
    /\ bc_seen = {}
    /\ queries = 0
    /\ det_calls = 0
    /\ bf_in = None
    /\ bf_out = None
    /\ log = <<>>
    /\ MISSION_PROFILES = ConfiguredProfiles
    /\ dossier = None
    /\ pipeline = PipelineIdle

Next == FormTeamCall \/ Round \/ Finish

Spec == Init /\ [][Next]_vars

----------------------------------------------------------------------------
(* Specification of calculate_team_bus_factor calls on one detector *)

MaxTeam == 3     \* longest team_ids list

SkillSetsBF == {{}, {"Python"}, {"SQL"}, {"Python", "SQL"}}

StoresBF ==
    {MkStore(Employees, {}, NoneOn(Employees), [id \in Employees |-> 0],
             NoneOn(Employees), sk) : sk \in [Employees -> SkillSetsBF]}

TeamsBF == SeqsUpTo(Employees, MaxTeam)

SkillsBF == {<<>>, <<"Python">>, <<"python", "SQL">>}

InitBF ==
    /\ store \in StoresBF
    /\ candidates = <<>>
    /\ skills_required = <<>>
    /\ k = 0
    /\ mode = "performance"
    /\ custom_weights = None
    /\ has_detector = TRUE
    /\ det_cache = EmptyDict
    /\ tf_cache = EmptyDict
    /\ weights = EmptyDict
    /\ beam = <<>>
    /\ round = 0
    /\ pc = "idle"
    /\ result = <<>>
    /\ raw_score = None
    /\ display = None
    /\ bc_seen = {}
    /\ queries = 0
    /\ det_calls = 0
    /\ bf_in = None
    /\ bf_out = None
    /\ detector_fails = FALSE
    /\ log = <<>>
    /\ MISSION_PROFILES = ConfiguredProfiles
    /\ dossier = None
    /\ pipeline = PipelineIdle

\* calculate_team_bus_factor(team_ids, skills); the call changes neither the
\* detector nor the store, so the first call of a behaviour stands for any
BusFactorCall ==
    /\ IsNone(bf_in)
    /\ \E team_ids \in TeamsBF : \E skills \in SkillsBF :
        /\ bf_in' = Some([team_ids |-> team_ids, skills |-> skills])
        /\ bf_out' = Some(calculate_team_bus_factor(store, team_ids, skills))
    /\ UNCHANGED <<candidates, skills_required, k, mode, custom_weights,
                   has_detector, detector_fails, log, MISSION_PROFILES, dossier, pipeline, store, det_cache, tf_cache, weights, beam,
                   round, pc, result, raw_score, display, bc_seen, queries,
                   det_calls>>

NextBF == BusFactorCall

SpecBF == InitBF /\ [][NextBF]_vars

----------------------------------------------------------------------------
(* Specification of the calls made on one LinchpinDetector at a time, over a
   store that changes between the calls *)

MaxLog == 3        \* calls and store changes observed
MaxEvidence == 2   \* most github evidence items of one employee

\* path 1 - 3 - 2, or no edge; employee 1 with or without the override 0.9
StoresDet ==
    {MkStore(Employees, e,
             [id \in Employees |-> IF id = 1 THEN syn ELSE None],
             [id \in Employees |-> ev[id]],
             NoneOn(Employees),
             [id \in Employees |-> IF id = 3 THEN {"Python"} ELSE {}]) :
        e \in {{}, {{1, 3}, {2, 3}}},
        syn \in {None, Some(Tenths(9))},
        ev \in {<<0, 0, 0>>, <<1, 2, 0>>}}
    \cup {EmptyStore}

\* the scores asked of get_risk_level: the thresholds and their neighbours
LevelGrid ==
    {RiskUnit \div 4, RiskUnit \div 4 + 1, RiskUnit \div 2, RiskUnit \div 2 + 1,
     (7 * RiskUnit) \div 10, (7 * RiskUnit) \div 10 + 1}

FormVars ==
    <<candidates, skills_required, k, mode, custom_weights, has_detector,
      detector_fails, tf_cache, weights, beam, round, pc, result, raw_score,
      display, bc_seen, bf_in, bf_out, MISSION_PROFILES, dossier, pipeline>>

InitDet ==
    /\ store \in StoresDet
    /\ candidates = <<>>
    /\ skills_required = <<>>
    /\ k = 0
    /\ mode = "performance"
    /\ custom_weights = None
    /\ has_detector = TRUE
    /\ detector_fails = FALSE
    /\ det_cache = EmptyDict
    /\ tf_cache = EmptyDict
    /\ weights = EmptyDict
    /\ beam = <<>>
    /\ round = 0
    /\ pc = "idle"
    /\ result = <<>>
    /\ raw_score = None
    /\ display = None
    /\ bc_seen = {}
    /\ queries = 0
    /\ det_calls = 0
    /\ bf_in = None
    /\ bf_out = None
    /\ log = <<>>
    /\ MISSION_PROFILES = ConfiguredProfiles
    /\ dossier = None
    /\ pipeline = PipelineIdle

EnvDet == MkEnv(EmptyDict, det_cache, store, queries, det_calls, {})

\* one line of the log: the operation, its argument, what it returned, the
\* queries it sent, and the store and the detector's cache it started from
LogEntry(op, arg, ret, q) ==
    [op |-> op, arg |-> arg, ret |-> ret, q |-> q, store |-> store,
     cache |-> det_cache]

Logged(r, op, arg) ==
    /\ store' = r.env.store
    /\ det_cache' = r.env.det_cache
    /\ queries' = r.env.queries
    /\ det_calls' = r.env.det_calls
    /\ log' = Append(log, LogEntry(op, arg, r.ret, r.env.queries - queries))
    /\ UNCHANGED FormVars

CentralityCall ==
    /\ Len(log) < MaxLog
    /\ \E r \in {compute_betweenness_centrality(EnvDet)} :
          Logged(r, "centrality", None)

CombinedCall ==
    /\ Len(log) < MaxLog
    /\ \E r \in {compute_combined_risk_score(EnvDet)} :
          Logged(r, "combined", None)

AnalyzeCall ==
    /\ Len(log) < MaxLog
    /\ \E id \in Employees : \E r \in {analyze_employee(EnvDet, id)} :
          Logged(r, "analyze", Some(id))

LevelCall ==
    /\ Len(log) < MaxLog
    /\ \E bc \in LevelGrid :
          log' = Append(log, LogEntry("level", Some(bc), get_risk_level(bc), 0))
    /\ UNCHANGED <<store, det_cache, queries, det_calls>>
    /\ UNCHANGED FormVars

\* changes made to the store by others: one more evidence item of employee 2,
\* the override of employee 1 set or cleared, the edge 1 - 3 added or removed
MoreEvidence(st) ==
    [st EXCEPT !.evidence[2] = IF @ < MaxEvidence THEN @ + 1 ELSE @]

OverrideToggled(st) ==
    [st EXCEPT !.bc_synthetic[1] = IF IsNone(@) THEN Some(Tenths(9)) ELSE None]

EdgeToggled(st) ==
    [st EXCEPT !.edges = IF {1, 3} \in @ THEN @ \ {{1, 3}} ELSE @ \cup {{1, 3}}]

StoreChange ==
    /\ Len(log) < MaxLog
    /\ store.nodes # {}
    /\ \E st \in {MoreEvidence(store), OverrideToggled(store), EdgeToggled(store)} :
          /\ st # store
          /\ store' = st
    /\ log' = Append(log, LogEntry("change", None, None, 0))
    /\ UNCHANGED <<det_cache, queries, det_calls>>
    /\ UNCHANGED FormVars

\* a new LinchpinDetector(driver): line 43, an empty cache
NewDetector ==
    /\ Len(log) < MaxLog
    /\ det_cache' = EmptyDict
    /\ log' = Append(log, LogEntry("new", None, None, 0))
    /\ UNCHANGED <<store, queries, det_calls>>
    /\ UNCHANGED FormVars

NextDet ==
    \/ CentralityCall
    \/ CombinedCall
    \/ AnalyzeCall
    \/ LevelCall
    \/ StoreChange
    \/ NewDetector

SpecDet == InitDet /\ [][NextDet]_vars

-----------------------------------------------------------------------------
(* Specification of the centrality computations of one LinchpinDetector over a
   store whose connection can drop in the middle of a computation *)

\* the entries of cache for the ids in S
Restricted(cache, S) == [id \in S \cap DOMAIN cache |-> cache[id]]

\* lines 73-79 cut short: the override query was sent and the rows of `read`
\* were consumed, each assigned to self._bc_cache at line 79, when the
\* iteration raised
CutWhileReading(env, read) ==
    [env |-> [Asked(Called(env), 3) EXCEPT
                 !.det_cache = Restricted(CentralityMap(env.store), read),
                 !.raised = TRUE],
     ret |-> EmptyDict]

\* lines 82-84 cut short: the cache was filled and the SET statements of
\* `written` had succeeded when the next one raised
CutWhileWriting(env, written) ==
    [env |-> [Asked(Called(env), 4 + Cardinality(written)) EXCEPT
                 !.det_cache = CentralityMap(env.store),
                 !.store = WriteCombined(env.store,
                              Restricted(CentralityMap(env.store), written)),
                 !.raised = TRUE],
     ret |-> EmptyDict]

\* the rows handled before the connection dropped: any but all of them
Handled(st) == (SUBSET st.nodes) \ {st.nodes}

\* compute_betweenness_centrality raising part-way; with a non-empty cache
\* (line 51) or no node (line 66) the call returns before lines 73-84
InterruptedCall ==
    /\ Len(log) < MaxLog
    /\ DOMAIN det_cache = {}
    /\ store.nodes # {}
    /\ \E rows \in Handled(store) :
         \E r \in {CutWhileReading(EnvDet, rows),
                   CutWhileWriting(EnvDet, rows)} :
            Logged(r, "centrality_raised", None)

NextCut ==
    \/ CentralityCall
    \/ InterruptedCall
    \/ NewDetector

SpecCut == InitDet /\ [][NextCut]_vars

-----------------------------------------------------------------------------
(* Specification of the generate_dossiers requests served by one process, and
   specification of one run_pipeline call *)

SearchVars ==
    <<candidates, skills_required, k, mode, custom_weights, has_detector,
      detector_fails, store, det_cache, tf_cache, weights, beam, round, pc,
      result, raw_score, display, bc_seen, queries, det_calls, bf_in, bf_out,
      log>>

\* no team search, detector call or bus-factor call is in progress
SearchIdle ==
    /\ store = EmptyStore
    /\ candidates = <<>>
    /\ skills_required = <<>>
    /\ k = 0
    /\ mode = "performance"
    /\ custom_weights = None
    /\ has_detector = TRUE
    /\ detector_fails = FALSE
    /\ det_cache = EmptyDict
    /\ tf_cache = EmptyDict
    /\ weights = EmptyDict
    /\ beam = <<>>
    /\ round = 0
    /\ pc = "idle"
    /\ result = <<>>
    /\ raw_score = None
    /\ display = None
    /\ bc_seen = {}
    /\ queries = 0
    /\ det_calls = 0
    /\ bf_in = None
    /\ bf_out = None
    /\ log = <<>>

\* the requests: any configured profile id, an unknown id or no id; either
\* formation mode or none; a skill list that finds candidates or none
RequestedProfiles == {None} \cup {Some(p) : p \in ProfileIds \cup {"unknown"}}
RequestedModes == {None, Some("performance"), Some("resilient")}

Requests ==
    [mission_profile : RequestedProfiles, formation_mode : RequestedModes,
     has_candidates : BOOLEAN]

InitDossier ==
    /\ SearchIdle
    /\ MISSION_PROFILES = ConfiguredProfiles
    /\ dossier = None
    /\ pipeline = PipelineIdle

\* generate_dossiers(request), guardian_core.py lines 352-527
DossierRequest ==
    /\ \E request \in Requests :
         \E r \in {generate_dossiers(MISSION_PROFILES, request)} :
            /\ MISSION_PROFILES' = r.profiles
            /\ dossier' = Some([request |-> request,
                                strategies |-> r.strategies])
    /\ UNCHANGED <<SearchVars, pipeline>>

NextDossier == DossierRequest

SpecDossier == InitDossier /\ [][NextDossier]_vars

MaxSources == 2
MaxCommits == 2

SourceNames == {"github", "jira"}

\* the `sources` argument: the source names in the order given
SourceLists ==
    UNION {[1..n -> SourceNames] : n \in 0..MaxSources}

CommitLimits == {None} \cup {Some(n) : n \in 1..MaxCommits}

InitPipe ==
    /\ SearchIdle
    /\ MISSION_PROFILES = ConfiguredProfiles
    /\ dossier = None
    /\ pipeline = PipelineIdle

\* run_pipeline(sources, max_commits=..., skip_normalization=...,
\* skip_recompute=...), pipeline.py lines 35-42
PipelineCall ==
    /\ pipeline.pc = "idle"
    /\ \E sources \in SourceLists, max_commits \in CommitLimits,
          skip_normalization \in BOOLEAN, skip_recompute \in BOOLEAN :
         pipeline' = Entered(sources, max_commits, skip_normalization,
                             skip_recompute)
    /\ UNCHANGED <<SearchVars, MISSION_PROFILES, dossier>>

\* pipeline.py lines 44-46: run_sources returns or raises
IngestStep ==
    /\ pipeline.pc = "ingest"
    /\ \/ pipeline' = Ingested(pipeline)
       \/ pipeline' = StepRaised(pipeline, "run_sources",
                                 <<pipeline.sources, pipeline.max_commits>>)
    /\ UNCHANGED <<SearchVars, MISSION_PROFILES, dossier>>

\* pipeline.py lines 48-53: the normalization runs, raises or is skipped
NormalizeStep ==
    /\ pipeline.pc = "normalize"
    /\ \/ pipeline' = NormalizedStep(pipeline)
       \/ /\ ~pipeline.skip_normalization
          /\ pipeline' = StepRaised(pipeline, "_normalize_evidence_uids", <<>>)
    /\ UNCHANGED <<SearchVars, MISSION_PROFILES, dossier>>

\* pipeline.py lines 55-60: the recompute runs, raises or is skipped
RecomputeStep ==
    /\ pipeline.pc = "recompute"
    /\ \/ pipeline' = RecomputedStep(pipeline)
       \/ /\ ~pipeline.skip_recompute
          /\ pipeline' = StepRaised(pipeline, "recompute_all_skill_levels",
                                    <<>>)
    /\ UNCHANGED <<SearchVars, MISSION_PROFILES, dossier>>

\* pipeline.py line 62
ReturnSummary ==
    /\ pipeline.pc = "return"
    /\ pipeline' = [pipeline EXCEPT !.pc = "returned"]
    /\ UNCHANGED <<SearchVars, MISSION_PROFILES, dossier>>

NextPipe ==
    \/ PipelineCall
    \/ IngestStep
    \/ NormalizeStep
    \/ RecomputeStep
    \/ ReturnSummary

SpecPipe == InitPipe /\ [][NextPipe]_vars

----------------------------------------------------------------------------
(* Properties *)

Ids(seq) == {seq[i].id : i \in 1..Len(seq)}

\* the bc value line 176 read for candidate id
RiskRead(id) == CHOOSE b \in {p[2] : p \in {q \in bc_seen : q[1] = id}} : TRUE

\* a pool of two candidates with distinct ids, the same skills and levels and
\* the same number of collaborators
PairAlike ==
    /\ Len(candidates) = 2
    /\ candidates[1].id # candidates[2].id
    /\ candidates[1].skills_detail = candidates[2].skills_detail
    /\ Cardinality(Neighbours(store, candidates[1].id))
        = Cardinality(Neighbours(store, candidates[2].id))

SameHours == LatestHours(store, candidates[1].id) = LatestHours(store, candidates[2].id)

\* C1: for k >= 1 the returned team has at most k members and no two members
\* share an id, whatever the pool (ids may repeat in it), skills and weights.
C1_AtMostKDistinct ==
    (pc = "done" /\ k >= 1) =>
        /\ Len(result) <= k
        /\ \A i, j \in 1..Len(result) : i # j => result[i].id # result[j].id

C1_Witness ==
    /\ pc = "done"
    /\ k >= 2
    /\ Len(result) = k
    /\ \E i, j \in 1..Len(candidates) : i < j /\ candidates[i].id = candidates[j].id

\* the case of C2: bc_penalty > 0, k = 1, two candidates alike in everything
\* but the risk read for them
C2_Case ==
    /\ pc = "done"
    /\ k = 1
    /\ PairAlike
    /\ SameHours
    /\ weights["bc_penalty"] > 0
    /\ RiskRead(candidates[1].id) # RiskRead(candidates[2].id)

C2_Lo == Min(RiskRead(candidates[1].id), RiskRead(candidates[2].id))
C2_Hi == Max(RiskRead(candidates[1].id), RiskRead(candidates[2].id))

\* C2 as stated: in that case the candidate with the lower risk is returned,
\* for every pair of risks, every positive weight and either input order.
C2_LowerRiskReturned ==
    C2_Case => (Len(result) = 1 /\ RiskRead(result[1].id) = C2_Lo)

\* C2 amended: the lower-risk candidate is returned when the higher risk is at
\* most 0.5, or when only the higher risk exceeds 0.5 and lower * 10 * w < 50;
\* when both risks exceed 0.5, or lower * 10 * w = 50, the first candidate of
\* the input is returned; when lower * 10 * w > 50 and the higher risk exceeds
\* 0.5 the higher-risk candidate is returned.  (w is held doubled.)
C2_LowerPenaltyReturned ==
    C2_Case =>
        /\ Len(result) = 1
        /\ IF 2 * C2_Hi <= RiskUnit
           THEN RiskRead(result[1].id) = C2_Lo
           ELSE IF 2 * C2_Lo > RiskUnit
           THEN result[1] = candidates[1]
           ELSE IF C2_Lo * 10 * weights["bc_penalty"] < 100 * RiskUnit
           THEN RiskRead(result[1].id) = C2_Lo
           ELSE IF C2_Lo * 10 * weights["bc_penalty"] = 100 * RiskUnit
           THEN result[1] = candidates[1]
           ELSE RiskRead(result[1].id) = C2_Hi

C2_Witness ==
    /\ C2_Case
    /\ 2 * C2_Lo <= RiskUnit
    /\ 2 * C2_Hi > RiskUnit
    /\ result = <<candidates[2]>>
    /\ RiskRead(candidates[2].id) = C2_Lo

\* every required skill has at least two distinct covering members
FullyRedundant(st, team_ids, required) ==
    \A sk \in required : Cardinality(Covering(st, team_ids, sk)) >= 2

\* some required skill has exactly one covering member
HasUniqueCover(st, team_ids, required) ==
    \E sk \in required : Cardinality(Covering(st, team_ids, sk)) = 1

\* C3: with the same required skills, a team whose every required skill has
\* two or more covering members gets a strictly larger bus factor than any team
\* in which some required skill has exactly one covering member.
C3_RedundantExceedsFragile ==
    (~IsNone(bf_in)
     /\ FullyRedundant(store, Val(bf_in).team_ids, Required(Val(bf_in).skills))) =>
        \A other \in TeamsBF :
            HasUniqueCover(store, other, Required(Val(bf_in).skills)) =>
                Val(bf_out).bf
                    > calculate_team_bus_factor(store, other, Val(bf_in).skills).bf

\* C4: a pool of n distinct candidates, 1 <= n < k, yields a non-empty team of
\* fewer than k members.
C4_PartialTeamReturned ==
    (pc = "done" /\ Cardinality(Ids(candidates)) >= 1
     /\ Cardinality(Ids(candidates)) < k) =>
        (Len(result) >= 1 /\ Len(result) < k)

\* C5: with k >= 1 and at least k pairwise distinct ids in the pool, exactly k
\* members are returned, also when the pool is longer than the beam is wide.
C5_ExactlyK ==
    (pc = "done" /\ k >= 1 /\ Cardinality(Ids(candidates)) >= k) =>
        Len(result) = k

C5_Witness ==
    /\ pc = "done"
    /\ Len(candidates) > BEAM_WIDTH
    /\ k >= 2
    /\ Len(result) = k

\* C6: with an empty pool and k >= 1 the call never raises, returns the empty
\* list, and issues no detector call and no store query, whatever the mode and
\* the weights (bc_penalty # 0 included).
C6_EmptyPoolEmptyTeam ==
    (Len(candidates) = 0 /\ k >= 1) =>
        /\ pc # "raised"
        /\ queries = 0
        /\ det_calls = 0
        /\ pc = "done" => result = <<>>

C6_Witness ==
    /\ pc = "done"
    /\ Len(candidates) = 0
    /\ k >= 1
    /\ weights["bc_penalty"] # 0
    /\ result = <<>>

\* C7: form_team returns normally for every k >= 0 and every weight profile:
\* the normalization never divides by zero.
C7_NeverDividesByZero == pc # "raised"

\* C8 as stated: the bc read for a candidate is its combined risk score
\* 0.5 * centrality + 0.5 * projectDependency, 0 when the detector has no entry.
C8_BcIsCombinedRisk ==
    has_detector =>
        \A p \in bc_seen : p[2] = Get(compute_combined_risk_score(Env).ret, p[1], 0)

\* C8 amended: with a detector the bc read for a candidate is its centrality
\* max(Brandes, override) with no project-dependency term, 0 when the detector
\* has no entry; without a detector it is the store's
\* coalesce(bc_combined, bc_synthetic, bc_brandes, 0), 0 for an unknown id.
C8_BcIsCentrality ==
    \A p \in bc_seen :
        p[2] = IF p[1] \notin store.nodes THEN 0
               ELSE IF has_detector
               THEN Max(Brandes(store, p[1]), BcSyn(store, p[1]))
               ELSE CoalesceBc(store, p[1])

C8_Witness ==
    /\ pc = "done"
    /\ has_detector
    /\ \E p \in bc_seen :
        /\ p[1] \in store.nodes
        /\ store.evidence[p[1]] > 0
        /\ p[2] > 0
        /\ p[2] # Get(compute_combined_risk_score(Env).ret, p[1], 0)

\* the store as the call found it: the call sets nothing but bc_combined,
\* which every store of Init leaves unset
StoreBefore == [store EXCEPT !.bc_combined = NoneOn(store.nodes)]

\* the profile W with factor f set to v
Extended(W, f, v) == [g \in DOMAIN W \cup {f} |-> IF g = f THEN v ELSE W[g]]

\* the call made with the weights cw in place of custom_weights ends as this one
SameOutcome(cw) ==
    \E o \in {form_team(candidates, skills_required, k, mode, cw, has_detector,
                        [MkEnv(EmptyDict, EmptyDict, StoreBefore, 0, 0, {})
                            EXCEPT !.det_fails = detector_fails])} :
        /\ o.pc = pc
        /\ o.result = result
        /\ o.raw_score = raw_score

C9_Default(f) ==
    CASE f = "skill_coverage" -> 6
      [] f = "skill_depth" -> 4
      [] f = "collaboration" -> 4
      [] f = "redundancy" -> 3
      [] OTHER -> 0

C10_MoreHoursReturned ==
    (/\ pc = "done"
     /\ k = 1
     /\ ~IsNone(custom_weights)
     /\ DOMAIN Val(custom_weights) = FactorNames
     /\ Val(custom_weights)["availability"] > 0
     /\ \A f \in FactorNames \ {"availability"} : Val(custom_weights)[f] = 0
     /\ PairAlike
     /\ ~SameHours) =>
        /\ Len(result) = 1
        /\ LatestHours(store, result[1].id)
            = Max(LatestHours(store, candidates[1].id),
                  LatestHours(store, candidates[2].id))

----------------------------------------------------------------------------
(* Failures of the store and of the detector *)

\* the risk lookup is the only access to the store the call makes: one round,
\* no degree query for the first member, no availability query
OnlyRiskLookup ==
    /\ k = 1
    /\ weights["collaboration"] <= 10
    /\ Get(weights, "availability", 0) <= 0

\* C11: with bc_penalty # 0, a store that is unreachable or has no nodes, and
\* no other access to the store than the risk lookup, form_team ends without
\* raising, returns a team, and every risk it read is 0.0.
C11_FailSoftRiskLookup ==
    (/\ pc \in {"done", "raised"}
     /\ weights["bc_penalty"] # 0
     /\ candidates # <<>>
     /\ OnlyRiskLookup
     /\ ~detector_fails
     /\ (~store.up \/ store.nodes = {})) =>
        /\ pc = "done"
        /\ result # <<>>
        /\ \A e \in bc_seen : e[2] = 0

\* the call made on a detector that works ends as this one
SameWithWorkingDetector ==
    \E o \in {form_team(candidates, skills_required, k, mode, custom_weights,
                        has_detector,
                        MkEnv(EmptyDict, EmptyDict, StoreBefore, 0, 0, {}))} :
        /\ o.pc = pc
        /\ o.result = result
        /\ o.raw_score = raw_score

\* C12: when the effective bc_penalty is 0, form_team never calls the
\* detector and never looks a risk up (both caches stay empty, the store is
\* not written), and the call ends as it does with a detector that works:
\* a detector that always raises does not make it fail.
C12_ZeroPenaltyNeverAsksDetector ==
    (pc \in {"loop", "done", "raised"} /\ weights["bc_penalty"] = 0) =>
        /\ det_calls = 0
        /\ bc_seen = {}
        /\ tf_cache = EmptyDict
        /\ det_cache = EmptyDict
        /\ store = StoreBefore
        /\ pc \in {"done", "raised"} => SameWithWorkingDetector

C12_Witness ==
    /\ pc = "done"
    /\ weights["bc_penalty"] = 0
    /\ has_detector
    /\ detector_fails
    /\ Len(result) = 2

----------------------------------------------------------------------------
(* The detector's calls *)

\* no new detector was made between lines i and j of the log
SameInstance(i, j) == \A m \in (i + 1)..(j - 1) : log[m].op # "new"

\* the lines of the log that call op
CallsOf(op) == {i \in DOMAIN log : log[i].op = op}

\* the call just made, when it is a call of op: every line of the log is the
\* last one in the state that follows its call
JustCalled(op) == {i \in CallsOf(op) : i = Len(log)}

\* C13: after the first compute_combined_risk_score of a detector, every later
\* call on that detector returns the same mapping and sends no query to the
\* store, whatever changed in the store in between.
C13_CombinedComputedOnce ==
    \A i, j \in CallsOf("combined") :
        (i < j /\ SameInstance(i, j)) =>
            /\ log[j].ret = log[i].ret
            /\ log[j].q = 0

\* C14: of two consecutive compute_betweenness_centrality calls on one
\* detector with no change of the graph in between, the second returns the
\* mapping of the first and sends no query to the store, for every graph,
\* the graph without nodes included.
C14_SecondCallIsCacheHit ==
    \A i \in CallsOf("centrality") :
        (i + 1) \in CallsOf("centrality") =>
            /\ log[i + 1].ret = log[i].ret
            /\ log[i + 1].q = 0

\* C15: a form_team call, the centrality and risk computations it triggers
\* included, writes nothing to the graph store.
C15_SearchWritesNothing == [][store' = store]_vars

\* the calls that return a combined score computed from the graph as it is:
\* compute_combined_risk_score on a detector that holds no centrality yet
FreshCombined == {i \in CallsOf("combined") : log[i].cache = EmptyDict}

\* id has no collaboration edge and no authored evidence in st
Isolated(st, id) ==
    /\ id \in st.nodes
    /\ \A e \in st.edges : id \notin e
    /\ st.evidence[id] = 0

\* id has no override score in st, or the override 0
NoOverride(st, id) ==
    IsNone(st.bc_synthetic[id]) \/ Val(st.bc_synthetic[id]) = 0

ScoreIsZero(ret, id) == id \in DOMAIN ret /\ ret[id] = 0

\* C16 as stated: the combined risk score of a candidate with no collaboration
\* edge and no authored evidence is 0.0, whatever else its node carries.
C16_IsolatedIsZero ==
    \A i \in FreshCombined \cap JustCalled("combined") : \A id \in log[i].store.nodes :
        Isolated(log[i].store, id) => ScoreIsZero(log[i].ret, id)

\* C16 amended: the combined risk score, computed from the graph as it is, of a
\* candidate with no collaboration edge, no authored evidence and no override
\* score (unset or 0) is 0.0, whatever the rest of the population.
C16_IsolatedNoOverrideIsZero ==
    \A i \in FreshCombined \cap JustCalled("combined") : \A id \in log[i].store.nodes :
        (Isolated(log[i].store, id) /\ NoOverride(log[i].store, id)) =>
            ScoreIsZero(log[i].ret, id)

C16_Witness ==
    \E i \in FreshCombined : \E id, other \in log[i].store.nodes :
        /\ Isolated(log[i].store, id)
        /\ NoOverride(log[i].store, id)
        /\ log[i].ret[id] = 0
        /\ log[i].ret[other] > 0
        /\ log[i].store.edges # {}

\* the override score of id, 0 when unset
OverrideOf(st, id) ==
    IF IsNone(st.bc_synthetic[id]) THEN 0 ELSE Val(st.bc_synthetic[id])

\* the centrality mapping a call starting from line e of the log works with:
\* the detector's cache when it holds one, else max(Brandes, override) of
\* every employee of the store
CentralityUsed(e) ==
    IF e.cache # EmptyDict THEN e.cache
    ELSE [id \in e.store.nodes |-> Max(Brandes(e.store, id), OverrideOf(e.store, id))]

\* authoredCount of id, 0 for an id the store does not know
Authored(st, id) == IF id \in st.nodes THEN st.evidence[id] ELSE 0

\* max(1, the largest authoredCount of the population)
LargestAuthored(st) ==
    CHOOSE m \in {1} \cup {st.evidence[id] : id \in st.nodes} :
        \A n \in {1} \cup {st.evidence[id] : id \in st.nodes} : n <= m

\* score = 0.5 * c + 0.5 * authored / largest, with authored / largest in
\* [0,1], stated without division
HalfAndHalf(score, c, authored, largest) ==
    /\ 2 * score * largest = c * largest + authored * RiskUnit
    /\ 0 <= authored /\ authored <= largest
    /\ largest >= 1

\* C17: compute_combined_risk_score returns a score for exactly the ids of the
\* centrality mapping and the ids with authored evidence, each equal to
\* 0.5 * c + 0.5 * p with c the id's centrality (max(Brandes, override), 0
\* without an entry) and p = authoredCount / max(1, largest authoredCount),
\* p in [0,1]; the call returns also when nobody has evidence.
C17_HalfCentralityHalfProject ==
    \A i \in JustCalled("combined") :
        /\ DOMAIN log[i].ret =
              DOMAIN CentralityUsed(log[i])
              \cup {id \in log[i].store.nodes : log[i].store.evidence[id] > 0}
        /\ \A id \in DOMAIN log[i].ret :
              HalfAndHalf(log[i].ret[id], Get(CentralityUsed(log[i]), id, 0),
                          Authored(log[i].store, id),
                          LargestAuthored(log[i].store))

C17_Witness ==
    \E i \in FreshCombined : \E id, nobody \in DOMAIN log[i].ret :
        /\ Authored(log[i].store, id) > 0
        /\ Authored(log[i].store, id) < LargestAuthored(log[i].store)
        /\ Brandes(log[i].store, nobody) > OverrideOf(log[i].store, nobody)
        /\ OverrideOf(log[i].store, id) > Brandes(log[i].store, id)
        /\ log[i].ret[id] * 10 = 7 * RiskUnit

\* the class of score by the stated intervals
Classified(score, level) ==
    /\ level \in {"CRITICAL", "HIGH", "MEDIUM", "LOW"}
    /\ level = "CRITICAL" <=> score * 10 > 7 * RiskUnit
    /\ level = "HIGH" <=> (score * 2 > RiskUnit /\ score * 10 <= 7 * RiskUnit)
    /\ level = "MEDIUM" <=> (score * 4 > RiskUnit /\ score * 2 <= RiskUnit)
    /\ level = "LOW" <=> score * 4 <= RiskUnit

----------------------------------------------------------------------------
(* The returned team *)

\* C19: every member of a non-empty returned team carries the same display
\* score, and it lies in [0,10] (tenths 0..100), for negative raw scores, raw
\* scores above the estimated maximum and profiles with negative weights.
C19_OneScoreInRange ==
    (pc = "done" /\ result # <<>>) =>
        /\ Len(display) = Len(result)
        /\ \A i \in DOMAIN display :
              /\ display[i] = display[1]
              /\ 0 <= display[i] /\ display[i] <= 100

C19_Witness ==
    /\ pc = "done"
    /\ Len(result) = 2
    /\ \E f \in DOMAIN weights : weights[f] < 0
    /\ Val(raw_score) < 0
    /\ display[1] > 0
    /\ display[2] = display[1]

\* a second run of the same call ends as this one did
SameAgain(env) ==
    \E o \in {form_team(candidates, skills_required, k, mode, custom_weights,
                        has_detector, [env EXCEPT !.det_fails = detector_fails])} :
        /\ o.pc = pc
        /\ o.result = result
        /\ o.raw_score = raw_score
        /\ o.display = display

\* the cumulative score of the team made of candidates[i] alone
FirstScore(i) ==
    Expand(Ctx, [MkEnv(EmptyDict, EmptyDict, StoreBefore, 0, 0, {})
                    EXCEPT !.det_fails = detector_fails],
           EmptyState, candidates[i]).state.score

\* the first position of the candidate list whose score no other exceeds
FirstBest ==
    CHOOSE j \in DOMAIN candidates :
        /\ \A i \in DOMAIN candidates : FirstScore(i) <= FirstScore(j)
        /\ \A i \in 1..(j - 1) : FirstScore(i) < FirstScore(j)

DifferingEntries ==
    {i \in 1..Len(candidates[1].skills_detail) :
        candidates[1].skills_detail[i] # candidates[2].skills_detail[i]}

\* a pool of two candidates with distinct ids that differ in nothing but the
\* level of one required skill: same skills, collaborators, hours and risk
DifferOnlyInLevel ==
    /\ Len(candidates) = 2
    /\ candidates[1].id # candidates[2].id
    /\ Len(candidates[1].skills_detail) = Len(candidates[2].skills_detail)
    /\ Cardinality(DifferingEntries) = 1
    /\ \A i \in DifferingEntries :
          /\ candidates[1].skills_detail[i].skill = candidates[2].skills_detail[i].skill
          /\ Lower(candidates[1].skills_detail[i].skill) \in Required(skills_required)
    /\ Cardinality(Neighbours(store, candidates[1].id))
        = Cardinality(Neighbours(store, candidates[2].id))
    /\ SameHours
    /\ weights["bc_penalty"] # 0 =>
          RiskRead(candidates[1].id) = RiskRead(candidates[2].id)

\* skill_depth is positive and greater than every other weight in size
DepthDominates ==
    \A f \in DOMAIN weights \ {"skill_depth"} :
        weights["skill_depth"] > Abs(weights[f])

\* the level of candidate n at the entry where the two differ, a missing
\* level counting as 0.5 (in halves)
LevelAtDifference(n) ==
    CHOOSE l \in {IF IsNone(candidates[n].skills_detail[i].nivel) THEN 1
                  ELSE 2 * Val(candidates[n].skills_detail[i].nivel) :
                  i \in DifferingEntries} : TRUE

\* C21: with skill_depth the dominant weight and two candidates that differ
\* only in their level of a required skill (a missing level counting as 0.5),
\* form_team with k = 1 returns the candidate of the higher level, in either
\* input order.
C21_HigherLevelReturned ==
    (pc = "done" /\ k = 1 /\ DifferOnlyInLevel /\ DepthDominates) =>
        result = <<IF LevelAtDifference(1) > LevelAtDifference(2)
                   THEN candidates[1] ELSE candidates[2]>>

C21_Witness ==
    /\ pc = "done"
    /\ k = 1
    /\ DifferOnlyInLevel
    /\ DepthDominates
    /\ IsNone(candidates[2].skills_detail[1].nivel)
    /\ candidates[1].skills_detail[1].nivel = Some(0)
    /\ weights["bc_penalty"] # 0
    /\ result = <<candidates[2]>>

\* the calls that compute the centrality from the graph as it is
FreshCentrality == {i \in JustCalled("centrality") : log[i].cache = EmptyDict}

NoEdgeAt(st, id) == \A e \in st.edges : id \notin e

\* C22 as stated: the centrality mapping gives 0.0 to every node without an
\* incident edge (so to every node of an edgeless graph) and is empty for the
\* graph without nodes.
C22_NoEdgeIsZero ==
    \A i \in FreshCentrality :
        /\ DOMAIN log[i].ret = log[i].store.nodes
        /\ \A id \in log[i].store.nodes :
              NoEdgeAt(log[i].store, id) => log[i].ret[id] = 0

\* C22 amended: the centrality mapping computed from the graph as it is has
\* an entry for every node, 0.0 for every node with no incident edge and no
\* override score (unset or 0), the override score for a node with no edge
\* that has one, and no entry at all for the graph without nodes.
C22_NoEdgeIsOverride ==
    \A i \in FreshCentrality :
        /\ DOMAIN log[i].ret = log[i].store.nodes
        /\ \A id \in log[i].store.nodes :
              NoEdgeAt(log[i].store, id) =>
                  log[i].ret[id] = OverrideOf(log[i].store, id)

C22_Witness ==
    \E i \in FreshCentrality : \E id, other \in log[i].store.nodes :
        /\ log[i].store.edges # {}
        /\ NoEdgeAt(log[i].store, id)
        /\ NoOverride(log[i].store, id)
        /\ log[i].ret[id] = 0
        /\ ~NoEdgeAt(log[i].store, other)

----------------------------------------------------------------------------
(* The bus factor *)

TeamOf(team_ids) == {team_ids[i] : i \in 1..Len(team_ids)}

\* the required skills no member outside gone covers
LostSkills(st, team_ids, required, gone) ==
    {sk \in required : Covering(st, team_ids, sk) \ gone = {}}

\* C23: calculate_team_bus_factor stops only when every team member has been
\* removed or more than 50% of the required skills have no remaining covering
\* member, and returns the count of the removals with the removed members.
C23_StopsWhenExhaustedOrHalfLost ==
    ~IsNone(bf_in) =>
        /\ Val(bf_out).bf = Len(Val(bf_out).critical_members)
        /\ \/ TeamOf(Val(bf_out).critical_members) = TeamOf(Val(bf_in).team_ids)
           \/ 2 * Cardinality(LostSkills(store, Val(bf_in).team_ids,
                                         Required(Val(bf_in).skills),
                                         TeamOf(Val(bf_out).critical_members)))
                > Cardinality(Required(Val(bf_in).skills))

----------------------------------------------------------------------------
(* The beam *)

\* the required skills the members of team have
CoveredBy(team) ==
    UNION {get_skills(team[i]) \cap Required(skills_required) : i \in 1..Len(team)}

\* C24: after round r (1 <= r <= k) the beam holds at most 10 states, each
\* with exactly r members, as many ids as members, and a covered set equal to
\* the union of its members' skills within the required skills.
C24_BeamInvariant ==
    (pc \in {"loop", "done"} /\ round >= 1) =>
        /\ round <= k
        /\ Len(beam) <= 10
        /\ \A i \in DOMAIN beam :
              /\ Len(beam[i].team) = round
              /\ beam[i].ids = Ids(beam[i].team)
              /\ Cardinality(beam[i].ids) = Len(beam[i].team)
              /\ beam[i].covered = CoveredBy(beam[i].team)
              /\ beam[i].covered \subseteq Required(skills_required)

C24_Witness ==
    /\ pc = "loop"
    /\ round = 2
    /\ Len(beam) = 10
    /\ Len(candidates) > 10
    /\ \E i \in DOMAIN beam :
          beam[i].covered # {} /\ beam[i].covered # Required(skills_required)

\* how many times x occurs in seq
Count(seq, x) == Cardinality({i \in DOMAIN seq : seq[i] = x})

\* kept is what pruning may keep of pool: as many states as fit, each taken
\* from the pool, and no state left out scores more than a state kept
KeepsBest(pool, kept) ==
    /\ Len(kept) = Min(10, Len(pool))
    /\ \A i \in DOMAIN kept : Count(kept, kept[i]) <= Count(pool, kept[i])
    /\ \A i \in DOMAIN pool :
          Count(kept, pool[i]) < Count(pool, pool[i]) =>
              \A j \in DOMAIN kept : pool[i].score <= kept[j].score

\* the team and score of a state of bm that no state of bm outscores
BestOf(bm, team, score) ==
    \E i \in DOMAIN bm :
        /\ bm[i].team = team
        /\ bm[i].score = score
        /\ \A j \in DOMAIN bm : bm[j].score <= bm[i].score

\* C25: each round keeps the best expansions (no discarded expansion scores
\* strictly more than a retained one, and all are retained when at most 10
\* were generated), and the team returned is that of a state of maximal
\* score in the final beam.
C25_PruningKeepsBest ==
    [][/\ (Round /\ pc' = "loop") =>
             KeepsBest(RoundStep(Ctx, Env, beam).pool, beam')
       /\ (Finish /\ pc' = "done" /\ beam # <<>>) =>
             BestOf(beam, result', Val(raw_score'))]_vars

C25_Witness ==
    /\ pc = "done"
    /\ Len(candidates) > 10
    /\ Len(result) = 2
    /\ Len(beam) = 10
    /\ beam[1].team = result
    /\ \E i \in DOMAIN candidates : candidates[i].id \notin UNION {beam[j].ids : j \in DOMAIN beam}

\* the latest request found candidates and asked for (or defaulted to) the
\* performance mode
ServedPerformance ==
    /\ ~IsNone(dossier)
    /\ Val(dossier).request.has_candidates
    /\ RequestedMode(Val(dossier).request) = "performance"

\* the profile the latest request resolves to
ServedProfile == get_mission_profile(RequestedProfile(Val(dossier).request))

\* C26: generate_dossiers never modifies the static mission-profile
\* configuration: after any sequence of requests, those with formation_mode
\* 'resilient' included, MISSION_PROFILES holds the weights originally
\* configured for every profile, and a request with formation_mode
\* 'performance' hands form_team the profile's own bc_penalty.
C26_ProfilesNeverModified ==
    /\ MISSION_PROFILES = ConfiguredProfiles
    /\ ServedPerformance =>
          Val(dossier).strategies[3].custom_weights.bc_penalty =
              ConfiguredProfiles[ServedProfile].weights.bc_penalty

\* a mapping that is empty or has an entry for every node of the store
EmptyOrComplete(cache) == DOMAIN cache \in {{}, store.nodes}

\* C27: the detector's centrality cache is at every moment either empty or the
\* complete mapping of one finished computation; when
\* compute_betweenness_centrality raises part-way the cache is left empty, and
\* a call never returns a partial mapping.
C27_CacheEmptyOrComplete ==
    /\ EmptyOrComplete(det_cache)
    /\ \A i \in JustCalled("centrality_raised") : DOMAIN det_cache = {}
    /\ \A i \in JustCalled("centrality") : EmptyOrComplete(log[i].ret)

-----------------------------------------------------------------------------
(* The critical members *)

\* the members listed before position i of the returned list
ListedBefore(i) ==
    {Val(bf_out).critical_members[j] : j \in 1..(i - 1)}

\* member tid was the last remaining member covering a required skill once
\* the members in gone had been removed
LastCover(st, team_ids, required, gone, tid) ==
    \E sk \in required :
        /\ tid \in Covering(st, team_ids, sk)
        /\ Covering(st, team_ids, sk) \ gone = {tid}

\* C28: every member that calculate_team_bus_factor lists as critical was, at
\* the moment of its removal, the last remaining team member covering at least
\* one required skill; a member that covers no required skill is never listed.
C28_CriticalWasLastCover ==
    ~IsNone(bf_in) =>
        \A i \in 1..Len(Val(bf_out).critical_members) :
            LastCover(store, Val(bf_in).team_ids, Required(Val(bf_in).skills),
                      ListedBefore(i), Val(bf_out).critical_members[i])

-----------------------------------------------------------------------------
(* The teams of the beam *)

\* C29: after every round of form_team, no two states of the beam consist of
\* the same set of member ids.
C29_BeamTeamsDistinct ==
    round >= 1 =>
        \A i, j \in 1..Len(beam) : i < j => beam[i].ids # beam[j].ids

-----------------------------------------------------------------------------
(* The pipeline *)

\* the positions of the calls of step made so far by the run
CallsTo(step) ==
    {i \in 1..Len(pipeline.calls) : pipeline.calls[i].step = step}

\* the number of steps that come before the recompute in this run
BeforeRecompute == IF pipeline.skip_normalization THEN 1 ELSE 2

\* C30: run_pipeline runs ingestion first, with the given sources and
\* max_commits; it runs the UID normalization only when skip_normalization is
\* false and only after ingestion, and the skill recompute only when
\* skip_recompute is false and only after the normalization step; the returned
\* summary has 'ingest' always and has 'normalize' / 'recompute' exactly when
\* the corresponding step ran.
C30_PipelineOrderAndSummary ==
    /\ pipeline.calls # <<>> =>
          /\ CallsTo("run_sources") = {1}
          /\ pipeline.calls[1].args = <<pipeline.sources, pipeline.max_commits>>
    /\ \A i \in CallsTo("_normalize_evidence_uids") :
          ~pipeline.skip_normalization /\ i = 2
    /\ \A i \in CallsTo("recompute_all_skill_levels") :
          ~pipeline.skip_recompute /\ i = BeforeRecompute + 1
    /\ pipeline.pc = "returned" =>
          /\ "ingest" \in DOMAIN pipeline.summary
          /\ pipeline.summary["ingest"].args =
                <<pipeline.sources, pipeline.max_commits>>
          /\ "normalize" \in DOMAIN pipeline.summary
                <=> CallsTo("_normalize_evidence_uids") # {}
          /\ "recompute" \in DOMAIN pipeline.summary
                <=> CallsTo("recompute_all_skill_levels") # {}
          /\ DOMAIN pipeline.summary \subseteq {"ingest", "normalize", "recompute"}

\* a run with a commit limit and two sources that skipped the normalization,
\* ran the recompute and returned
C30_Witness ==
    /\ pipeline.pc = "returned"
    /\ pipeline.skip_normalization
    /\ ~pipeline.skip_recompute
    /\ Len(pipeline.sources) = 2
    /\ ~IsNone(pipeline.max_commits)
    /\ DOMAIN pipeline.summary = {"ingest", "recompute"}

====
